---- MODULE Spec2Model ----
(***************************************************************************)
(* Model of src/src/clientApp.ts: the request pipeline of the Screeps      *)
(* steamless client (backend address codec, asset lookup with conditional  *)
(* caching, content rewriting with the options-literal patch, HTTP and     *)
(* WebSocket pass-through).                                                *)
(*                                                                         *)
(* Strings are sequences of tokens.  A token is either one of the          *)
(* characters the code inspects ("/", "(", ")", ".", "?", "{", "}") or a   *)
(* run of characters the code never looks into ("http:", "build", "js").   *)
(***************************************************************************)
EXTENDS Integers, Sequences, FiniteSets, TLC

VARIABLES
    argv,        \* parsed program arguments (lines 24-55)
    req,         \* the inbound request: path, query, headers, method
    pc,          \* position of the request in the server
    res,         \* koa response: status, body, headers
    respond,     \* context.respond (false: koa writes nothing itself)
    proxyCalls,  \* calls made to proxy.web / proxy.ws
    log,         \* messages written through error(...)
    socket,      \* client socket of an upgrade request
    work,        \* rewrite work done for the request
    fetchOutcome,\* what the backend does with the version request
    alive,       \* the process is running
    codecIn,     \* codec specification: origin and inner path
    codecOut,    \* codec specification: result of extract
    bundle,      \* patch specification: the bundle text as read from the archive
    text,        \* patch specification: the text being patched
    matches,     \* patch specification: match.index of every marker (matchAll)
    matchPos,    \* patch specification: next match to process
    patchOfficial, \* patch specification: the value of `official`
    patchPc      \* patch specification: position in the rewrite

vars == <<argv, req, pc, res, respond, proxyCalls, log, socket, work,
          fetchOutcome, alive, codecIn, codecOut, bundle, text, matches,
          matchPos, patchOfficial, patchPc>>

httpVars == <<argv, req, pc, res, respond, proxyCalls, log, socket, work,
              fetchOutcome, alive>>
codecVars == <<codecIn, codecOut>>
patchVars == <<bundle, text, matches, matchPos, patchOfficial, patchPc>>

----------------------------------------------------------------------------
(* Strings *)

\* s.startsWith(p)
StartsWith(s, p) == Len(s) >= Len(p) /\ SubSeq(s, 1, Len(p)) = p

\* s.includes(c), c a single token
Includes(s, c) == \E i \in 1..Len(s) : s[i] = c

\* s.substring(n) with n counted in tokens
Substring(s, n) == SubSeq(s, n + 1, Len(s))

\* an undefined string-valued option or result
Undefined == <<>>

\* characters the regular expression dot does not match
LineTerminators == {"\n", "\r"}

----------------------------------------------------------------------------
(* Backend address codec: extract, lines 94-108 *)

\* backend.replace(/\/+$/, '')
RECURSIVE StripTrailingSlashes(_)
StripTrailingSlashes(s) ==
    IF Len(s) > 0 /\ s[Len(s)] = "/"
    THEN StripTrailingSlashes(SubSeq(s, 1, Len(s) - 1))
    ELSE s

NoRoute == [ok |-> FALSE, backend |-> Undefined, endpoint |-> Undefined]

\* index of the first ")" of url at or after position i, 0 when there is none
RECURSIVE FirstCloseParen(_, _)
FirstCloseParen(url, i) ==
    IF i > Len(url) THEN 0
    ELSE IF url[i] = ")" THEN i
    ELSE FirstCloseParen(url, i + 1)

\* a plausible slip: the inner path need not begin with "/"
MatchEmbeddedNoSlash(url) ==
    LET k == FirstCloseParen(url, 3) IN
    IF /\ Len(url) >= 4
       /\ url[1] = "/"
       /\ url[2] = "("
       /\ k >= 4
    THEN [ok |-> TRUE, backend |-> SubSeq(url, 3, k - 1),
          endpoint |-> SubSeq(url, k + 1, Len(url))]
    ELSE NoRoute

\* a plausible slip: a greedy .+ for the backend group, which runs to the LAST ")/"
MatchEmbeddedGreedy(url) ==
    LET ks == {k \in 4..(Len(url) - 1) : url[k] = ")" /\ url[k + 1] = "/"} IN
    IF /\ Len(url) >= 5
       /\ url[1] = "/"
       /\ url[2] = "("
       /\ ks # {}
    THEN LET k == CHOOSE x \in ks : \A y \in ks : y <= x IN
         [ok |-> TRUE, backend |-> SubSeq(url, 3, k - 1),
          endpoint |-> SubSeq(url, k + 1, Len(url))]
    ELSE NoRoute

\* /^\/\((?<backend>[^)]+)\)(?<endpoint>\/.*)$/.exec(url)?.groups
\* [^)]+ is followed by a literal ")", so the backend group ends at the first ")"
MatchEmbedded(url) ==
    LET k == FirstCloseParen(url, 3) IN
    IF /\ Len(url) >= 5
       /\ url[1] = "/"
       /\ url[2] = "("
       /\ k >= 4
       /\ k < Len(url)
       /\ url[k + 1] = "/"
       /\ \A i \in (k + 1)..Len(url) : url[i] \notin LineTerminators
    THEN [ok |-> TRUE, backend |-> SubSeq(url, 3, k - 1),
          endpoint |-> SubSeq(url, k + 1, Len(url))]
    ELSE NoRoute

\* extract(url) under the --backend argument given (Undefined when absent)
extract(url, backendArg) ==
    IF backendArg # Undefined
    THEN [ok |-> TRUE, backend |-> StripTrailingSlashes(backendArg), endpoint |-> url]
    ELSE LET groups == MatchEmbedded(url) IN
         IF groups.ok
         THEN [ok |-> TRUE, backend |-> StripTrailingSlashes(groups.backend),
               endpoint |-> groups.endpoint]
         ELSE NoRoute

\* `/(${origin})`: the path segment getServerListConfig builds for a backend, lines 136-137
encode(origin) == <<"/", "(">> \o origin \o <<")">>

----------------------------------------------------------------------------
(* Program arguments and the archive *)

GenericOrigin == <<"http:", "/", "/", "o">>
OfficialOrigin == <<"https:", "/", "/", "screeps.com">>
\* the landing page links to `/(file)/logotype.svg` (line 143): a backend that is no URL
FileOrigin == <<"file">>
InternalOrigin == <<"http:", "/", "/", "internal">>

\* stat.mtime of package.nw, line 84
ArchiveMTime == 2

\* zip.files: the entries of package.nw by archive path, lines 80-81
IndexHtml == <<"index", ".", "html">>
ConfigJs == <<"config", ".", "js">>
BuildMinJs == <<"build", ".", "min", ".", "js">>
ZipFiles ==
    { IndexHtml, ConfigJs, BuildMinJs,
      <<"app", ".", "js">>,
      <<"img", ".", "PNG">>,
      <<"data", ".", "json">>,
      <<"LICENSE">>,
      <<"logotype", ".", "svg">> }

\* content of build.min.js in the archive ("M" is `options={`, "a" is `apiUrl`)
BuildMinJsText == <<"M", "a", "}">>

----------------------------------------------------------------------------
(* Options-literal patch of build.min.js, lines 332-352.                   *)
(* Bundle tokens: "M" is `options={`, "{" and "}" are braces, "a" is the   *)
(* identifier `apiUrl`.                                                     *)

BundleTokens == {"M", "{", "}", "a"}

\* tokens that begin with a word character that joins a following `options`
WordTokens == {"a"}

\* tokens that open a brace
OpenTokens == {"M", "{"}

\* the three `key: value,` lines of the template at lines 342-346
InjectedFields(official) ==
    <<"host", "port", IF official THEN "official:true" ELSE "official:false">>

InjectedFieldTokens == {"host", "port", "official:true", "official:false"}

\* what replaces the closing brace at i: the fields, the template's own "}" and a space
Injected(official) == InjectedFields(official) \o <<"}", " ">>

\* /\boptions=\{/ matches at k: the marker, not preceded by a word character
MarkerAt(t, k) == t[k] = "M" /\ (k = 1 \/ t[k - 1] \notin WordTokens)

\* [...text.matchAll(/\boptions=\{/g)].map(m => m.index), line 333
RECURSIVE MatchAllFrom(_, _)
MatchAllFrom(t, k) ==
    IF k > Len(t) THEN <<>>
    ELSE (IF MarkerAt(t, k) THEN <<k>> ELSE <<>>) \o MatchAllFrom(t, k + 1)

MatchAll(t) == MatchAllFrom(t, 1)

\* new Function(payload) does not throw, line 339: the braces of the payload
\* balance, and a `key: value,` line stands inside a literal
RECURSIVE ParsesFrom(_, _, _)
ParsesFrom(p, i, depth) ==
    IF i > Len(p) THEN depth = 0
    ELSE IF p[i] \in OpenTokens THEN ParsesFrom(p, i + 1, depth + 1)
    ELSE IF p[i] = "}" THEN depth > 0 /\ ParsesFrom(p, i + 1, depth - 1)
    ELSE IF p[i] \in InjectedFieldTokens THEN depth > 0 /\ ParsesFrom(p, i + 1, depth)
    ELSE ParsesFrom(p, i + 1, depth)

Parses(payload) == ParsesFrom(payload, 1, 0)

\* the inner loop, lines 334-351, for a match at index m, from position i on
RECURSIVE PatchFrom(_, _, _, _)
PatchFrom(t, m, i, official) ==
    IF i > Len(t) THEN t
    ELSE IF t[i] = "}" /\ Parses(SubSeq(t, m, i))
         THEN IF Includes(SubSeq(t, m, i), "a")
              THEN SubSeq(t, 1, i - 1) \o Injected(official) \o SubSeq(t, i + 1, Len(t))
              ELSE t
         ELSE PatchFrom(t, m, i + 1, official)

\* one iteration of the outer loop, line 333: match.index is an index of the
\* string matchAll was called on
PatchMatch(t, m, official) == PatchFrom(t, m, m, official)

\* the outer loop, lines 333-352, from the n-th match on
RECURSIVE PatchMatches(_, _, _, _)
PatchMatches(t, ms, n, official) ==
    IF n > Len(ms) THEN t
    ELSE PatchMatches(PatchMatch(t, ms[n], official), ms, n + 1, official)

PatchOptions(t, official) == PatchMatches(t, MatchAll(t), 1, official)

----------------------------------------------------------------------------
(* Requests *)

\* String.prototype.toLowerCase on a token
LowerToken(c) ==
    CASE c = "PNG" -> "png"
      [] c = "WebSocket" -> "websocket"
      [] c = "Official-Like" -> "official-like"
      [] OTHER -> c

toLowerCase(s) == [i \in 1..Len(s) |-> LowerToken(s[i])]

\* inner endpoints a client asks for
Endpoints ==
    { <<"/">>,
      <<"/">> \o ConfigJs,
      <<"/">> \o BuildMinJs,
      <<"/", "app", ".", "js">>,
      <<"/", "img", ".", "PNG">>,
      <<"/", "data", ".", "json">>,
      <<"/", "LICENSE">>,
      <<"/", "logotype", ".", "svg">>,
      <<"/", "api", "/", "version">>,
      <<"/", "api", "/", "auth", "/", "steam-ticket">>,
      <<"/", "socket", "/">>,
      <<"/", "season", "/">> \o ConfigJs }

\* paths that carry no backend address
PlainPaths ==
    Endpoints \cup
    { <<"/", "public", "/", "favicon", ".", "png">>,
      <<"/", "(", ")", "/">>,
      <<"/", "(", "file", ")">>,
      <<"/", "(", "file", ")", "x">> }

RequestOrigins == {GenericOrigin, GenericOrigin \o <<"/">>, OfficialOrigin, FileOrigin}

RequestPaths ==
    PlainPaths \cup {encode(o) \o e : o \in RequestOrigins, e \in Endpoints}

\* query strings: none, `?bust=`, `?bust=1`
Queries == {<<>>, <<"?", "bust", "=">>, <<"?", "bust", "=", "1">>}

\* If-Modified-Since values: absent, older than the archive, the archive's own
ImsValues == {Undefined, <<ArchiveMTime - 1>>, <<ArchiveMTime>>}

UpgradeValues == {Undefined, <<"WebSocket">>, <<"h2c">>}

Requests ==
    [ path : RequestPaths,
      query : Queries,
      host : BOOLEAN,            \* a Host header is present
      upgrade : UpgradeValues,   \* the Upgrade header
      connectionUpgrade : BOOLEAN, \* Connection: upgrade
      method : {"GET", "POST"},
      ifModifiedSince : ImsValues ]

Argvs ==
    [ backend : {Undefined, GenericOrigin \o <<"/">>},
      internal_backend : {Undefined, InternalOrigin},
      beautify : BOOLEAN ]

\* req.url: the request target, path and query string
Url(r) == r.path \o r.query

\* context.request.query.bust: the value of the `bust` parameter, Undefined
\* both when it is absent and when it is empty
QueryBust(q) ==
    IF Len(q) >= 3 /\ q[2] = "bust" THEN SubSeq(q, 4, Len(q)) ELSE Undefined

----------------------------------------------------------------------------
(* koa *)

NoBody == [kind |-> "none", text |-> <<>>, beautified |-> FALSE]

\* the response koa starts every request with: status 404, nothing set
FreshResponse ==
    [ status |-> 404, body |-> NoBody, type |-> Undefined,
      cacheControl |-> Undefined, lastModified |-> Undefined ]

\* context.body = b: the status becomes 200 unless one was set
SetBody(r, b) == [r EXCEPT !.body = b, !.status = 200]

\* context.fresh (koa request.fresh over the fresh package): GET or HEAD, a
\* 2xx or 304 status, and Last-Modified not after If-Modified-Since
Fresh(r, response) ==
    /\ r.method = "GET"
    /\ (response.status \in 200..299 \/ response.status = 304)
    /\ r.ifModifiedSince # Undefined
    /\ response.lastModified # Undefined
    /\ response.lastModified[1] <= r.ifModifiedSince[1]

----------------------------------------------------------------------------
(* Asset lookup, lines 203-209 *)

\* info.endpoint.match(/^\/(season|ptr)/)?.[0] for the official backend
Prefix(info) ==
    IF /\ info.backend = OfficialOrigin
       /\ Len(info.endpoint) >= 2
       /\ info.endpoint[1] = "/"
       /\ info.endpoint[2] \in {"season", "ptr"}
    THEN SubSeq(info.endpoint, 1, 2)
    ELSE Undefined

\* endpointFilePath and urlPath, lines 206-207
UrlPath(info) ==
    LET prefix == Prefix(info)
        endpointFilePath ==
            IF prefix # Undefined THEN Substring(info.endpoint, Len(prefix))
            ELSE info.endpoint
    IN IF endpointFilePath = <<"/">> THEN IndexHtml ELSE Substring(endpointFilePath, 1)

\* /\.[^.]+$/.exec(s)?.[0]: from the last "." on, when something follows it
RECURSIVE LastDot(_, _)
LastDot(s, i) ==
    IF i = 0 THEN 0
    ELSE IF s[i] = "." THEN i
    ELSE LastDot(s, i - 1)

Extension(s) ==
    LET k == LastDot(s, Len(s)) IN
    IF k > 0 /\ k < Len(s) THEN SubSeq(s, k, Len(s)) ELSE Undefined

\* the extension table, lines 384-394; a key the table lacks reads as undefined
TypeTable(ext) ==
    CASE ext = <<".", "css">> -> "text/css"
      [] ext = <<".", "html">> -> "text/html"
      [] ext = <<".", "js">> -> "text/javascript"
      [] ext = <<".", "map">> -> "application/json"
      [] ext = <<".", "png">> -> "image/png"
      [] ext = <<".", "svg">> -> "image/svg+xml"
      [] ext = <<".", "ttf">> -> "font/ttf"
      [] ext = <<".", "woff">> -> "font/woff"
      [] ext = <<".", "woff2">> -> "font/woff2"
      [] OTHER -> "undefined"

\* the Content-Type set at lines 382-395
ContentType(urlPath) ==
    LET ext == Extension(toLowerCase(urlPath)) IN
    TypeTable(IF ext # Undefined THEN ext ELSE <<".", "html">>)

\* lines 398-400 applied to a response
SetCacheControl(response, q) ==
    IF QueryBust(q) # Undefined
    THEN [response EXCEPT !.cacheControl = <<"public,max-age=31536000,immutable">>]
    ELSE response

\* lines 381-400: the headers set once the body is there
SetHeaders(response, urlPath, q) ==
    SetCacheControl([response EXCEPT !.type = <<ContentType(urlPath)>>], q)

----------------------------------------------------------------------------
(* Version check of the main bundle, lines 317-330 *)

\* new URL(s) accepts s: scheme, "//", host
ValidUrl(s) == Len(s) = 4 /\ s[1] \in {"http:", "https:"} /\ s[2] = "/" /\ s[3] = "/"

\* new URL(s).hostname
Hostname(s) == s[4]

Feature(hasName, name) == [hasName |-> hasName, name |-> name]

\* what the backend answers to GET <api>/version: the fetch rejects; a body
\* that is no JSON; the JSON `null`; an object without serverData.features;
\* features that is no array; a features array
Reply(kind, features) == [kind |-> kind, features |-> features]

VersionReplies ==
    { Reply("reject", <<>>), Reply("text", <<>>), Reply("null", <<>>),
      Reply("noFeatures", <<>>), Reply("featuresNotArray", <<>>),
      Reply("features", <<>>),
      Reply("features", <<Feature(TRUE, <<"Official-Like">>)>>),
      Reply("features", <<Feature(TRUE, <<"other">>)>>),
      Reply("features", <<Feature(FALSE, <<>>)>>),
      Reply("features", <<Feature(TRUE, <<"Official-Like">>), Feature(FALSE, <<>>)>>) }

NoReply == Reply("none", <<>>)
NeverReplies == Reply("never", <<>>)

\* lines 319-325: the parsed body, undefined when fetch or JSON.parse throws
Version(reply) ==
    IF reply.kind \in {"reject", "text"} THEN Reply("undefined", <<>>) ELSE reply

\* features.some(f => f.name.toLowerCase() === 'official-like'), left to right
RECURSIVE SomeOfficialLike(_, _)
SomeOfficialLike(features, i) ==
    IF i > Len(features) THEN "false"
    ELSE IF ~features[i].hasName THEN "TypeError"
    ELSE IF toLowerCase(features[i].name) = <<"official-like">> THEN "true"
    ELSE SomeOfficialLike(features, i + 1)

\* lines 326-329: "true", "false", or the TypeError the expression throws
OfficialLike(version) ==
    CASE version.kind \in {"undefined", "null", "noFeatures"} -> "false"
      [] version.kind = "featuresNotArray" -> "TypeError"
      [] OTHER -> SomeOfficialLike(version.features, 1)

\* ctx.onerror: koa answers an error thrown by a middleware with a bare 500
ErrorResponse == [FreshResponse EXCEPT !.status = 500,
                  !.body = [kind |-> "error", text |-> <<>>, beautified |-> FALSE]]

----------------------------------------------------------------------------
(* Pass-through forwarding *)

\* encodeURIComponent on a token
EncodeToken(c) ==
    CASE c = "/" -> "%2F"
      [] c = "http:" -> "http%3A"
      [] c = "https:" -> "https%3A"
      [] OTHER -> c

encodeURIComponent(s) == [i \in 1..Len(s) |-> EncodeToken(s[i])]

\* context.req.url as set at lines 413-418
ProxyUrl(info) ==
    IF StartsWith(info.endpoint, <<"/", "api", "/", "auth">>)
    THEN LET separator ==
                 IF info.endpoint[Len(info.endpoint)] = "?" THEN <<>>
                 ELSE IF Includes(info.endpoint, "?") THEN <<"&">>
                 ELSE <<"?">>
         IN info.endpoint \o separator \o <<"returnUrl", "=">>
                \o encodeURIComponent(info.backend)
    ELSE info.endpoint

\* a plausible slip: the internal backend is ignored
PublicTarget(internal, info) == info.backend

\* argv.internal_backend ?? info.backend, lines 420 and 433
ProxyTarget(internal, info) == IF internal # Undefined THEN internal ELSE info.backend

ProxyCall(kind, url, target) == [kind |-> kind, url |-> url, target |-> target]

\* the condition at line 430
IsWebSocketRoute(info, r) ==
    info.ok /\ r.upgrade # Undefined /\ toLowerCase(r.upgrade) = <<"websocket">>

\* node's http server emits 'upgrade' instead of 'request' for a request with
\* Connection: upgrade and an Upgrade header once a listener is there (line 428)
IsUpgradeEvent(r) == r.upgrade # Undefined /\ r.connectionUpgrade

\* proxy.on('error', ...) is registered, line 61: an error event with no
\* listener would be thrown
ProxyErrorListener == TRUE

----------------------------------------------------------------------------
(* The HTTP pipeline *)

IdleCodec ==
    /\ codecIn = [origin |-> <<>>, path |-> <<>>, backendArg |-> <<>>]
    /\ codecOut = [done |-> FALSE, route |-> NoRoute]

IdlePatch ==
    /\ bundle = <<>>
    /\ text = <<>>
    /\ matches = <<>>
    /\ matchPos = 0
    /\ patchOfficial = FALSE
    /\ patchPc = "idle"

IdleHttp ==
    /\ argv = [backend |-> Undefined, internal_backend |-> Undefined, beautify |-> FALSE]
    /\ req = [path |-> <<"/">>, query |-> <<>>, host |-> TRUE, upgrade |-> Undefined,
              connectionUpgrade |-> FALSE, method |-> "GET",
              ifModifiedSince |-> Undefined]
    /\ pc = "idle"
    /\ res = FreshResponse
    /\ respond = TRUE
    /\ proxyCalls = <<>>
    /\ log = <<>>
    /\ socket = "open"
    /\ work = [entryRead |-> FALSE, fetches |-> 0]
    /\ fetchOutcome = NoReply
    /\ alive = TRUE

\* a request arrives at the listening server, line 90
Init ==
    /\ argv \in Argvs
    /\ req \in Requests
    /\ pc = "recv"
    /\ res = FreshResponse
    /\ respond = TRUE
    /\ proxyCalls = <<>>
    /\ log = <<>>
    /\ socket = "open"
    /\ work = [entryRead |-> FALSE, fetches |-> 0]
    /\ fetchOutcome = NoReply
    /\ alive = TRUE
    /\ IdleCodec
    /\ IdlePatch

\* the route the asset middleware works with, line 197
Info == extract(req.path, argv.backend)

\* node hands the request to koa: views and koa-conditional-get call next()
DispatchRequest ==
    /\ pc = "recv"
    /\ ~IsUpgradeEvent(req)
    /\ pc' = "index"
    /\ UNCHANGED <<codecVars, patchVars>>
    /\ UNCHANGED <<argv, req, res, respond, proxyCalls, log, socket, work,
                   fetchOutcome, alive>>

\* lines 158-170; serverList is read from the settings file on every request
IndexMiddleware ==
    /\ pc = "index"
    /\ \E serverListLength \in 0..1 :
         IF /\ argv.backend = Undefined
            /\ req.path \in {<<"/">>, <<"index.html">>}
            /\ serverListLength > 0
         THEN /\ res' = [SetBody(res, [kind |-> "landing", text |-> <<>>,
                                       beautified |-> FALSE])
                            EXCEPT !.type = <<"text/html">>]
              /\ pc' = "unwind"
         ELSE /\ res' = res
              /\ pc' = "public"
    /\ UNCHANGED <<codecVars, patchVars>>
    /\ UNCHANGED <<argv, req, respond, proxyCalls, log, socket, work,
                   fetchOutcome, alive>>

\* publicFiles, lines 173-177
PublicFiles ==
    { [file |-> <<"public", "/", "favicon", ".", "png">>, type |-> "image/png"],
      [file |-> <<"public", "/", "style", ".", "css">>, type |-> "text/css"],
      [file |-> <<"dist", "/", "serverStatus", ".", "js">>, type |-> "text/javascript"] }

\* lines 180-193
PublicMiddleware ==
    /\ pc = "public"
    /\ LET urlPath == Substring(req.path, 1)
           hits == {f \in PublicFiles : f.file = urlPath} IN
       IF argv.backend = Undefined /\ hits # {}
       THEN /\ res' = [SetBody(res, [kind |-> "public", text |-> <<>>,
                                     beautified |-> FALSE])
                          EXCEPT !.type = <<(CHOOSE f \in hits : TRUE).type>>]
            /\ pc' = "unwind"
       ELSE /\ res' = res
            /\ pc' = "asset"
    /\ UNCHANGED <<codecVars, patchVars>>
    /\ UNCHANGED <<argv, req, respond, proxyCalls, log, socket, work,
                   fetchOutcome, alive>>

\* lines 196-218: decode, look the entry up, check freshness
AssetMiddleware ==
    /\ pc = "asset"
    /\ IF ~Info.ok \/ ~req.host
       THEN /\ log' = Append(log, "Unknown URL")
            /\ res' = res
            /\ pc' = "unwind"
       ELSE IF UrlPath(Info) \notin ZipFiles
       THEN /\ log' = log
            /\ res' = res
            /\ pc' = "proxy"
       ELSE LET dated == [res EXCEPT !.lastModified = <<ArchiveMTime>>] IN
            /\ log' = log
            /\ res' = dated
            /\ pc' = IF Fresh(req, dated) THEN "unwind" ELSE "rewrite"
    /\ UNCHANGED <<codecVars, patchVars>>
    /\ UNCHANGED <<argv, req, respond, proxyCalls, socket, work, fetchOutcome, alive>>

\* context.path.endsWith('.js'), line 314
EndsWithJs(path) ==
    Len(path) >= 2 /\ path[Len(path) - 1] = "." /\ path[Len(path)] = "js"

TextBody(kind, t) == [kind |-> kind, text |-> t, beautified |-> FALSE]

\* argv.beautify ? jsBeautify(text) : text, line 367
ScriptBody(t) == [kind |-> "script", text |-> t, beautified |-> argv.beautify]

\* lines 220-400 up to the version request: read the entry and rewrite it
Rewrite ==
    /\ pc = "rewrite"
    /\ LET urlPath == UrlPath(Info)
           read == [work EXCEPT !.entryRead = TRUE] IN
       IF urlPath = IndexHtml \/ urlPath = ConfigJs
       THEN /\ work' = read
            /\ res' = SetHeaders(SetBody(res, TextBody(IF urlPath = IndexHtml
                                                        THEN "index.html"
                                                        ELSE "config.js", <<>>)),
                                  urlPath, req.query)
            /\ pc' = "unwind"
       ELSE IF EndsWithJs(req.path) /\ urlPath = BuildMinJs
       THEN IF ValidUrl(Info.backend)
            THEN /\ work' = [read EXCEPT !.fetches = @ + 1]
                 /\ res' = res
                 /\ pc' = "fetch"
            ELSE /\ work' = read
                 /\ res' = ErrorResponse
                 /\ pc' = "responded"
       ELSE IF EndsWithJs(req.path)
       THEN /\ work' = read
            /\ res' = SetHeaders(SetBody(res, ScriptBody(<<>>)), urlPath, req.query)
            /\ pc' = "unwind"
       ELSE /\ work' = read
            /\ res' = SetHeaders(SetBody(res, TextBody("stream", <<>>)),
                                  urlPath, req.query)
            /\ pc' = "unwind"
    /\ UNCHANGED <<codecVars, patchVars>>
    /\ UNCHANGED <<argv, req, respond, proxyCalls, log, socket, fetchOutcome, alive>>

\* the backend answers the version request: lines 322-400
FetchSettles ==
    /\ pc = "fetch"
    /\ \E reply \in VersionReplies :
         LET officialLike == OfficialLike(Version(reply)) IN
         /\ fetchOutcome' = reply
         /\ IF officialLike = "TypeError"
            THEN /\ res' = ErrorResponse
                 /\ pc' = "responded"
            ELSE LET official == Hostname(Info.backend) = "screeps.com"
                                  \/ officialLike = "true"
                     patched == PatchOptions(BuildMinJsText, official) IN
                 /\ res' = SetHeaders(SetBody(res, ScriptBody(patched)),
                                       UrlPath(Info), req.query)
                 /\ pc' = "unwind"
    /\ UNCHANGED <<codecVars, patchVars>>
    /\ UNCHANGED <<argv, req, respond, proxyCalls, log, socket, work, alive>>

\* the backend accepts the version request and never answers; fetch is
\* called without a timeout or an abort signal, line 322
FetchNeverSettles ==
    /\ pc = "fetch"
    /\ fetchOutcome' = NeverReplies
    /\ pc' = "hung"
    /\ UNCHANGED <<codecVars, patchVars>>
    /\ UNCHANGED <<argv, req, res, respond, proxyCalls, log, socket, work, alive>>

\* lines 404-425
ProxyMiddleware ==
    /\ pc = "proxy"
    /\ LET info == extract(Url(req), argv.backend) IN
       IF req.upgrade # Undefined
       THEN /\ respond' = FALSE
            /\ proxyCalls' = proxyCalls
       ELSE IF info.ok
       THEN /\ respond' = FALSE
            /\ proxyCalls' = Append(proxyCalls,
                   ProxyCall("web", ProxyUrl(info),
                             ProxyTarget(argv.internal_backend, info)))
       ELSE /\ respond' = respond
            /\ proxyCalls' = proxyCalls
    /\ pc' = "unwind"
    /\ UNCHANGED <<codecVars, patchVars>>
    /\ UNCHANGED <<argv, req, res, log, socket, work, fetchOutcome, alive>>

\* the middlewares return: koa-conditional-get (line 155) turns a fresh
\* response into a 304 without a body, then koa writes the response unless
\* context.respond is false
Unwind ==
    /\ pc = "unwind"
    /\ res' = IF Fresh(req, res)
              THEN [res EXCEPT !.status = 304, !.body = NoBody, !.type = Undefined]
              ELSE res
    /\ pc' = IF respond THEN "responded"
             ELSE IF proxyCalls # <<>> THEN "proxying"
             ELSE "noResponse"
    /\ UNCHANGED <<codecVars, patchVars>>
    /\ UNCHANGED <<argv, req, respond, proxyCalls, log, socket, work,
                   fetchOutcome, alive>>

\* http-proxy streams the backend's response to the client
ProxyWebResponds ==
    /\ pc = "proxying"
    /\ pc' = "proxied"
    /\ UNCHANGED <<codecVars, patchVars>>
    /\ UNCHANGED <<argv, req, res, respond, proxyCalls, log, socket, work,
                   fetchOutcome, alive>>

\* http-proxy emits 'error': the listener of line 61 logs it
ProxyWebFails ==
    /\ pc = "proxying"
    /\ log' = Append(log, "proxy error")
    /\ alive' = (alive /\ ProxyErrorListener)
    /\ pc' = "proxyFailed"
    /\ UNCHANGED <<codecVars, patchVars>>
    /\ UNCHANGED <<argv, req, res, respond, proxyCalls, socket, work, fetchOutcome>>

----------------------------------------------------------------------------
(* WebSocket upgrades, lines 428-439 *)

\* node emits 'upgrade' for the request
DispatchUpgrade ==
    /\ pc = "recv"
    /\ IsUpgradeEvent(req)
    /\ pc' = "upgrade"
    /\ UNCHANGED <<codecVars, patchVars>>
    /\ UNCHANGED <<argv, req, res, respond, proxyCalls, log, socket, work,
                   fetchOutcome, alive>>

\* server.on('upgrade', ...), lines 428-439
UpgradeHandler ==
    /\ pc = "upgrade"
    /\ LET info == extract(Url(req), argv.backend) IN
       IF IsWebSocketRoute(info, req)
       THEN /\ proxyCalls' = Append(proxyCalls,
                   ProxyCall("ws", info.endpoint,
                             ProxyTarget(argv.internal_backend, info)))
            /\ socket' = socket
            /\ pc' = "wsProxying"
       ELSE /\ proxyCalls' = proxyCalls
            /\ socket' = "ended"
            /\ pc' = "closed"
    /\ UNCHANGED <<codecVars, patchVars>>
    /\ UNCHANGED <<argv, req, res, respond, log, work, fetchOutcome, alive>>

\* the backend accepts the upgrade: http-proxy pipes the two sockets
ProxyWsConnects ==
    /\ pc = "wsProxying"
    /\ pc' = "wsOpen"
    /\ UNCHANGED <<codecVars, patchVars>>
    /\ UNCHANGED <<argv, req, res, respond, proxyCalls, log, socket, work,
                   fetchOutcome, alive>>

\* the forward fails, before or after the upgrade: http-proxy emits 'error'
\* (logged by the listener of line 61) and ends the client socket
ProxyWsFails ==
    /\ pc \in {"wsProxying", "wsOpen"}
    /\ log' = Append(log, "proxy error")
    /\ alive' = (alive /\ ProxyErrorListener)
    /\ socket' = "ended"
    /\ pc' = "wsFailed"
    /\ UNCHANGED <<codecVars, patchVars>>
    /\ UNCHANGED <<argv, req, res, respond, proxyCalls, work, fetchOutcome>>

\* the client socket errors: the listener of line 435 logs it
ClientSocketError ==
    /\ pc = "wsOpen"
    /\ log' = Append(log, "socket error")
    /\ socket' = "ended"
    /\ pc' = "wsClosed"
    /\ UNCHANGED <<codecVars, patchVars>>
    /\ UNCHANGED <<argv, req, res, respond, proxyCalls, work, fetchOutcome, alive>>

Next ==
    \/ DispatchRequest
    \/ IndexMiddleware
    \/ PublicMiddleware
    \/ AssetMiddleware
    \/ Rewrite
    \/ FetchSettles
    \/ FetchNeverSettles
    \/ ProxyMiddleware
    \/ Unwind
    \/ ProxyWebResponds
    \/ ProxyWebFails
    \/ DispatchUpgrade
    \/ UpgradeHandler
    \/ ProxyWsConnects
    \/ ProxyWsFails
    \/ ClientSocketError

Spec == Init /\ [][Next]_vars

----------------------------------------------------------------------------
(* The codec on its own: extract applied to encoded paths *)

MaxInnerLen == 3

\* characters of an inner path
PathTokens == {"/", "(", ")", "?", "p"}

\* inner paths: "/" followed by up to MaxInnerLen tokens
InnerPaths ==
    UNION {{<<"/">> \o s : s \in [1..n -> PathTokens]} : n \in 0..MaxInnerLen}

\* backend origins: scheme, host, optional port
Origins ==
    {GenericOrigin, OfficialOrigin, GenericOrigin \o <<":", "21025">>, FileOrigin}

CodecInit ==
    /\ codecIn \in [origin : Origins, path : InnerPaths,
                     backendArg : {Undefined, GenericOrigin, GenericOrigin \o <<"/", "/">>}]
    /\ codecOut = [done |-> FALSE, route |-> NoRoute]
    /\ IdleHttp
    /\ IdlePatch

\* a request for `/(${origin})${path}` is decoded
Decode ==
    /\ ~codecOut.done
    /\ codecOut' = [done |-> TRUE,
                    route |-> extract(encode(codecIn.origin) \o codecIn.path,
                                      codecIn.backendArg)]
    /\ UNCHANGED <<codecIn, httpVars, patchVars>>

CodecNext == Decode

CodecSpec == CodecInit /\ [][CodecNext]_vars

----------------------------------------------------------------------------
(* The patch on its own: the loop of lines 333-352 over bundle texts *)

MaxBundleLen == 7

BundleTexts == UNION {[1..n -> BundleTokens] : n \in 0..MaxBundleLen}

PatchInit ==
    /\ bundle \in BundleTexts
    /\ text = bundle
    /\ matches = <<>>
    /\ matchPos = 0
    /\ patchOfficial = FALSE
    /\ patchPc = "read"
    /\ IdleHttp
    /\ IdleCodec

\* text.matchAll(...) is called on the text as read, line 333
PatchStart ==
    /\ patchPc = "read"
    /\ matches' = MatchAll(text)
    /\ matchPos' = 1
    /\ patchPc' = "loop"
    /\ UNCHANGED <<bundle, text, patchOfficial, httpVars, codecVars>>

\* one iteration of the outer loop: the inner loop for the next match
PatchStep ==
    /\ patchPc = "loop"
    /\ matchPos <= Len(matches)
    /\ text' = PatchMatch(text, matches[matchPos], patchOfficial)
    /\ matchPos' = matchPos + 1
    /\ UNCHANGED <<bundle, matches, patchOfficial, patchPc, httpVars, codecVars>>

\* the loop ends; the rewrite returns the text
PatchReturn ==
    /\ patchPc = "loop"
    /\ matchPos > Len(matches)
    /\ patchPc' = "done"
    /\ UNCHANGED <<bundle, text, matches, matchPos, patchOfficial, httpVars, codecVars>>

PatchNext == PatchStart \/ PatchStep \/ PatchReturn

PatchSpec == PatchInit /\ [][PatchNext]_vars

----------------------------------------------------------------------------
(* Properties *)

\* the path has the form "/(" origin ")" "/" rest, the origin without ")"
IsEmbeddedForm(path) ==
    \E k \in 4..(Len(path) - 1) :
        /\ path[1] = "/"
        /\ path[2] = "("
        /\ path[k] = ")"
        /\ path[k + 1] = "/"
        /\ \A i \in 3..(k - 1) : path[i] # ")"

\* the request was handed to koa and its handling has ended
HttpEnded == pc \in {"responded", "noResponse", "hung", "proxied", "proxyFailed"}

\* the upgrade handler has run for the request
UpgradeHandled == pc \in {"closed", "wsProxying", "wsOpen", "wsFailed", "wsClosed"}

\* the response is an archive entry served in full
AssetServed ==
    /\ pc = "responded"
    /\ res.status = 200
    /\ res.body.kind \in {"index.html", "config.js", "script", "stream"}

\* C1: an HTTP request whose path decodes to a route and whose inner endpoint
\* is not in the archive is handed to the proxy forwarder, whatever its headers
C1_MissIsForwarded ==
    (HttpEnded /\ Info.ok /\ UrlPath(Info) \notin ZipFiles) => proxyCalls # <<>>

\* C2 as stated: a request that does not decode is never forwarded; an HTTP
\* request ends with a client error and an upgrade with the socket ended
C2_UnroutableIsClientError ==
    (argv.backend = Undefined) =>
        /\ (~IsEmbeddedForm(req.path) /\ ~IsEmbeddedForm(Url(req))) => proxyCalls = <<>>
        /\ (HttpEnded /\ ~IsEmbeddedForm(req.path)) =>
               (pc = "responded" /\ res.status \in 400..499)
        /\ (UpgradeHandled /\ ~IsEmbeddedForm(Url(req))) =>
               (pc = "closed" /\ socket = "ended")

\* C2 as amended: a request that does not decode is never forwarded; an
\* upgrade ends with the socket ended; an HTTP request ends with a client
\* error unless the landing page or a public file has answered it
C2_UnroutableNeverForwarded ==
    (argv.backend = Undefined) =>
        /\ (~IsEmbeddedForm(req.path) /\ ~IsEmbeddedForm(Url(req))) => proxyCalls = <<>>
        /\ (HttpEnded /\ ~IsEmbeddedForm(req.path)) =>
               /\ pc = "responded"
               /\ \/ res.status \in 400..499
                  \/ res.body.kind \in {"landing", "public"}
        /\ (UpgradeHandled /\ ~IsEmbeddedForm(Url(req))) =>
               (pc = "closed" /\ socket = "ended")

C2_Witness ==
    /\ argv.backend = Undefined
    /\ ~IsEmbeddedForm(req.path)
    /\ pc = "responded"
    /\ res.status = 404
    /\ log = <<"Unknown URL">>

\* C3: in embedded mode, decoding "/(" O ")" P gives back exactly O and P
C3_RoundTrip ==
    (codecOut.done /\ codecIn.backendArg = Undefined) =>
        codecOut.route = [ok |-> TRUE, backend |-> codecIn.origin,
                          endpoint |-> codecIn.path]

C3_Witness ==
    /\ codecOut.done
    /\ codecIn.backendArg = Undefined
    /\ Includes(codecIn.path, ")")
    /\ Len(codecIn.origin) > 4
    /\ codecOut.route.ok

\* C4: a GET for an archive entry whose If-Modified-Since equals the
\* archive's lastModified is answered 304 without a body, and no rewrite
\* work is done for it: the entry is not read, the version is not fetched
C4_NotModifiedBeforeRewrite ==
    ( /\ pc \notin {"recv", "upgrade"}
      /\ ~UpgradeHandled
      /\ req.method = "GET"
      /\ req.ifModifiedSince = <<ArchiveMTime>>
      /\ req.host
      /\ Info.ok
      /\ UrlPath(Info) \in ZipFiles
      /\ (argv.backend = Undefined => IsEmbeddedForm(req.path)) ) =>
        /\ ~work.entryRead
        /\ work.fetches = 0
        /\ HttpEnded => (pc = "responded" /\ res.status = 304 /\ res.body = NoBody)

\* the Content-Type C6 states: the table entry, "text/html" without one
ClaimedType(urlPath) ==
    LET ext == Extension(toLowerCase(urlPath)) IN
    IF ext # Undefined /\ TypeTable(ext) # "undefined"
    THEN TypeTable(ext)
    ELSE "text/html"

\* C6: the Content-Type of a served archive entry is the table entry of its
\* lower-cased extension, and text/html when the extension is missing or unknown
C6_ContentType ==
    AssetServed => res.type = <<ClaimedType(UrlPath(Info))>>

\* the query string holds a `bust` parameter
HasBust(q) == Len(q) >= 2 /\ q[2] = "bust"

\* C7: a served archive entry carries the immutable cache directive exactly
\* when the query string holds the parameter bust, whatever its value
C7_BustPresence ==
    AssetServed =>
        ((res.cacheControl = <<"public,max-age=31536000,immutable">>)
            <=> HasBust(req.query))

RECURSIVE BalancingFrom(_, _, _)
BalancingFrom(t, i, depth) ==
    IF i > Len(t) THEN 0
    ELSE IF t[i] \in OpenTokens THEN BalancingFrom(t, i + 1, depth + 1)
    ELSE IF t[i] = "}" THEN (IF depth = 1 THEN i ELSE BalancingFrom(t, i + 1, depth - 1))
    ELSE BalancingFrom(t, i + 1, depth)

BalancingBrace(t, k) == BalancingFrom(t, k + 1, 1)

\* the closing braces C8 wants the fields inserted before: those of the
\* marker literals that contain apiUrl
PatchedBraces(t) ==
    { BalancingBrace(t, k) : k \in
        { m \in 1..Len(t) :
            /\ MarkerAt(t, m)
            /\ BalancingBrace(t, m) # 0
            /\ Includes(SubSeq(t, m, BalancingBrace(t, m)), "a") } }

\* the text C8 describes: the fields before each such brace, the rest as it was
RECURSIVE ClaimedPatchFrom(_, _, _)
ClaimedPatchFrom(t, i, official) ==
    IF i > Len(t) THEN <<>>
    ELSE (IF i \in PatchedBraces(t) THEN Injected(official) ELSE <<t[i]>>)
             \o ClaimedPatchFrom(t, i + 1, official)

\* C8: every marker literal that contains apiUrl gets the fields inserted
\* before its balancing closing brace, also after an earlier occurrence was
\* patched; every other part of the text is as in the input
C8_EveryOccurrencePatched ==
    (patchPc = "done") => text = ClaimedPatchFrom(bundle, 1, patchOfficial)

C10_VersionCheckBounded ==
    (work.fetches > 0) =>
        /\ pc # "hung"
        /\ (pc = "responded") => res.status \in {200, 304}
        /\ ( /\ AssetServed
             /\ fetchOutcome.kind # "features"
             /\ Hostname(Info.backend) # "screeps.com" ) =>
               Includes(res.body.text, "official:false")

====
